---- MODULE Spec2Model ----
(***************************************************************************)
(* The availability store subsystem of node/core/av-store/src/lib.rs:      *)
(* a two-column key-value store (DATA, META), the two pruning queues kept  *)
(* under META, the cached next-wakeup keys, and the control loop that      *)
(* multiplexes messages, chain signals and the two pruning timers.         *)
(*                                                                         *)
(* Time is counted in hours since UNIX_EPOCH, so the three retention       *)
(* constants of the source (1 h, 24 h, 25 h) are 1, 24 and 25.             *)
(* An Option<T> is <<>> for None and <<v>> for Some(v).                    *)
(***************************************************************************)
EXTENDS Integers, Sequences, FiniteSets, TLC

\* ------------------------------------------------------------------ bounds
\* Under Spec a message that adds pruning records is offered only while the
\* two queues together hold fewer records than this.
MaxRecords == 2
\* Under SpecPoV a StoreAvailableData is offered only while the PoV queue
\* holds fewer records than this.
MaxPoVRecords == 3
\* Number of times the clock advances under Spec.
MaxTicks == 1
\* Number of times the clock advances under SpecPoV.
MaxPoVTicks == 2
\* Largest number of activated leaves one ActiveLeaves signal carries.
MaxLeaves == 1

\* ------------------------------------------------------------ environment
\* The candidate hashes, the proofs of validity and the chunk indices the
\* environment uses; n_validators of every StoreAvailableData is NValidators.
Candidates == {1, 2}
PoVs == {1, 2}
ChunkIndices == {0, 1}
NValidators == Cardinality(ChunkIndices)

\* --------------------------------------------------------------- constants
KEEP_STORED_BLOCK_FOR == 1
KEEP_FINALIZED_BLOCK_FOR == 24
KEEP_FINALIZED_CHUNK_FOR == 25

\* The relay-chain block number of a candidate: relay parent's number + 1.
BlockOf(c) == c
MaxBlock == Cardinality(Candidates)
\* Amounts by which the clock advances between two loop iterations under
\* SpecPoV; under Spec it advances by KEEP_STORED_BLOCK_FOR.
TickSteps == {1, KEEP_FINALIZED_BLOCK_FOR}

VARIABLES db, now, ticks, loop, frozen

vars == <<db, now, ticks, loop, frozen>>

\* ------------------------------------------------------------------ types
None == <<>>
Some(v) == <<v>>
IsSome(o) == o # <<>>
Unwrap(o) == o[1]

In(d) == [tag |-> "In", d |-> d]
Indefinite == [tag |-> "Indefinite", d |-> 0]

\* Ordering values.
Less == "Less"
Equal == "Equal"
Greater == "Greater"

CmpInt(a, b) == IF a < b THEN Less ELSE IF a > b THEN Greater ELSE Equal

\* impl Ord for PruningDelay
CmpDelay(a, b) == IF a.tag = "In" /\ b.tag = "In" THEN CmpInt(a.d, b.d) ELSE IF a.tag = "In" THEN Less ELSE IF b.tag = "In" THEN Greater ELSE Equal

\* PruningDelay::as_duration
as_duration(p) == IF p.tag = "In" THEN Some(p.d) ELSE None

\* PruningDelay::into_the_future, with the clock reading t
into_the_future(t, duration) == In(t + duration)

\* impl Ord for PoVPruningRecord
CmpPoVRecord(a, b) == IF a.candidate_hash = b.candidate_hash THEN Equal ELSE CmpDelay(a.prune_at, b.prune_at)

\* impl Ord for ChunkPruningRecord
CmpChunkRecord(a, b) == IF a.candidate_hash = b.candidate_hash THEN Equal ELSE CmpDelay(a.prune_at, b.prune_at)

Cmp(kind, a, b) == IF kind = "pov" THEN CmpPoVRecord(a, b) ELSE CmpChunkRecord(a, b)

\* ------------------------------------------------------------------ codec
\* Values are encoded as their fields in declaration order, an enum as its
\* variant index followed by the variant's payload.
StateNames == <<"Stored", "Included", "Finalized">>

EncodeState(s) == CHOOSE i \in 1..3 : StateNames[i] = s
DecodeState(i) == StateNames[i]

EncodeDelay(p) == IF p.tag = "In" THEN <<0, p.d>> ELSE <<1>>
DecodeDelay(e) == IF e[1] = 0 THEN In(e[2]) ELSE Indefinite

EncodePoVRecord(r) == <<r.candidate_hash, r.block_number, EncodeState(r.candidate_state), EncodeDelay(r.prune_at)>>
DecodePoVRecord(e) == [candidate_hash |-> e[1], block_number |-> e[2], candidate_state |-> DecodeState(e[3]), prune_at |-> DecodeDelay(e[4])]

EncodeChunkRecord(r) == <<r.candidate_hash, r.block_number, EncodeState(r.candidate_state), r.chunk_index, EncodeDelay(r.prune_at)>>
DecodeChunkRecord(e) == [candidate_hash |-> e[1], block_number |-> e[2], candidate_state |-> DecodeState(e[3]), chunk_index |-> e[4], prune_at |-> DecodeDelay(e[5])]

EncodeQueue(kind, q) == [i \in 1..Len(q) |-> IF kind = "pov" THEN EncodePoVRecord(q[i]) ELSE EncodeChunkRecord(q[i])]
DecodeQueue(kind, e) == [i \in 1..Len(e) |-> IF kind = "pov" THEN DecodePoVRecord(e[i]) ELSE DecodeChunkRecord(e[i])]

\* AvailableData is a proof of validity and the validation data's block number.
\* A decoder that reads the fields in another order than the encoder's.
DecodeStoredDataSwapped(e) == [data |-> [pov |-> e[2], block_number |-> e[1]], n_validators |-> e[3]]

EncodeStoredData(s) == <<s.data.pov, s.data.block_number, s.n_validators>>
DecodeStoredData(e) == [data |-> [pov |-> e[1], block_number |-> e[2]], n_validators |-> e[3]]

EncodeChunk(ch) == <<ch.chunk, ch.index>>
DecodeChunk(e) == [chunk |-> e[1], index |-> e[2]]

\* ------------------------------------------------------------------- keys
available_data_key(c) == <<c, 0>>
erasure_chunk_key(c, index) == <<c, index, 0>>

CHUNK_PRUNING_KEY == "chunks_pruning"
POV_PRUNING_KEY == "pov_pruning"
NEXT_POV_PRUNING == "next_pov_pruning"
NEXT_CHUNK_PRUNING == "next_chunk_pruning"

QueueKey(kind) == IF kind = "pov" THEN POV_PRUNING_KEY ELSE CHUNK_PRUNING_KEY
NextKey(kind) == IF kind = "pov" THEN NEXT_POV_PRUNING ELSE NEXT_CHUNK_PRUNING

\* ------------------------------------------------------- key-value store
\* A column is a function from the keys present to their encoded values; a
\* transaction is the sequence of its puts and deletes, applied atomically.
EmptyColumn == [k \in {} |-> 0]

ColPut(col, key, value) == [k \in (DOMAIN col) \cup {key} |-> IF k = key THEN value ELSE col[k]]
ColDelete(col, key) == [k \in (DOMAIN col) \ {key} |-> col[k]]

TxPut(column, key, value) == [op |-> "put", col |-> column, key |-> key, value |-> Some(value)]
TxDelete(column, key) == [op |-> "delete", col |-> column, key |-> key, value |-> None]

ApplyOp(d, o) == IF o.op = "put" THEN [d EXCEPT ![o.col] = ColPut(@, o.key, Unwrap(o.value))] ELSE [d EXCEPT ![o.col] = ColDelete(@, o.key)]

RECURSIVE ApplyTx(_, _)
ApplyTx(d, tx) == IF tx = <<>> THEN d ELSE ApplyTx(ApplyOp(d, Head(tx)), Tail(tx))

\* query_inner, before decoding
DbGet(d, column, key) == IF key \in DOMAIN d[column] THEN Some(d[column][key]) ELSE None

\* db.write: the batch is applied whole, or (attempt number failAt) not at
\* all and the handler gets an Io error. st is the handler's progress:
\* the store, the number of batches attempted and committed, the error, and
\* the <<old state, new state>> pairs of the records it has rewritten.
db_write(st, tx, failAt) == IF st.attempts + 1 = failAt THEN [st EXCEPT !.attempts = @ + 1, !.err = "Io"] ELSE [st EXCEPT !.db = ApplyTx(st.db, tx), !.attempts = @ + 1, !.writes = @ + 1]

Begin(d) == [db |-> d, attempts |-> 0, writes |-> 0, err |-> "none", trans |-> {}]

\* ------------------------------------------------------------ typed reads
available_data(d, c) == LET raw == DbGet(d, "DATA", available_data_key(c)) IN IF IsSome(raw) THEN Some(DecodeStoredData(Unwrap(raw))) ELSE None

stored_chunk(d, c, index) == LET raw == DbGet(d, "DATA", erasure_chunk_key(c, index)) IN IF IsSome(raw) THEN Some(DecodeChunk(Unwrap(raw))) ELSE None

\* pov_pruning(db) and chunk_pruning(db)
pruning(kind, d) == LET raw == DbGet(d, "META", QueueKey(kind)) IN IF IsSome(raw) THEN Some(DecodeQueue(kind, Unwrap(raw))) ELSE None

pov_pruning(d) == pruning("pov", d)
chunk_pruning(d) == pruning("chunk", d)

\* get_next_pov_pruning_time(db) and get_next_chunk_pruning_time(db)
get_next_pruning_time(kind, d) == DbGet(d, "META", NextKey(kind))

unwrap_or_default(o) == IF IsSome(o) THEN Unwrap(o) ELSE <<>>

\* --------------------------------------------------- sort and binary search
\* Number of leading elements of s that compare Less than x.
RECURSIVE LessPrefix(_, _, _)
LessPrefix(kind, s, x) == IF s # <<>> /\ Cmp(kind, Head(s), x) = Less THEN 1 + LessPrefix(kind, Tail(s), x) ELSE 0

\* slice::insert_head: v[2..] is sorted; move v[1] right, past the elements
\* that are less than it.
insert_head(kind, v) == IF Len(v) >= 2 /\ Cmp(kind, v[2], v[1]) = Less THEN LET k == LessPrefix(kind, Tail(v), v[1]) IN SubSeq(v, 2, k + 1) \o <<v[1]>> \o SubSeq(v, k + 2, Len(v)) ELSE v

\* A sort that is not stable: insertion sort from the left end, which swaps
\* the elements that compare Equal.
RECURSIVE SortUnstable(_, _)
SortUnstable(kind, v) == IF Len(v) < 2 THEN v ELSE insert_head(kind, <<v[Len(v)]>> \o SortUnstable(kind, SubSeq(v, 1, Len(v) - 1)))

\* Vec::sort on a short vector: insertion sort from the right end.
RECURSIVE sort(_, _)
sort(kind, v) == IF Len(v) < 2 THEN v ELSE insert_head(kind, <<Head(v)>> \o sort(kind, Tail(v)))

\* slice::binary_search's loop; s is indexed from 1, base counts from 0.
RECURSIVE SearchLoop(_, _, _, _, _)
SearchLoop(kind, s, x, base, size) == IF size > 1 THEN LET half == size \div 2 mid == base + half IN SearchLoop(kind, s, x, IF Cmp(kind, s[mid + 1], x) = Greater THEN base ELSE mid, size - half) ELSE base

\* binary_search(..).unwrap_or_else(|insert_idx| insert_idx): the index found
\* or the insertion index, counted from 0.
binary_search(kind, s, x) == IF Len(s) = 0 THEN 0 ELSE LET base == SearchLoop(kind, s, x, 0, Len(s)) c == Cmp(kind, s[base + 1], x) IN IF c = Equal THEN base ELSE IF c = Less THEN base + 1 ELSE base

\* Vec::insert(idx, x), idx counted from 0
insert(s, idx, x) == SubSeq(s, 1, idx) \o <<x>> \o SubSeq(s, idx + 1, Len(s))

\* ------------------------------------------------------ put_*_pruning
NextOp(kind, q) == IF q # <<>> /\ q[1].prune_at.tag = "In" THEN TxPut("META", NextKey(kind), q[1].prune_at.d) ELSE TxDelete("META", NextKey(kind))

\* put_pov_pruning / put_chunk_pruning: sort, write the queue, set or delete
\* the cached wakeup from the head, and commit the batch.
put_pruning(kind, st, tx, q, failAt) == LET sorted == sort(kind, q) IN db_write(st, tx \o <<TxPut("META", QueueKey(kind), EncodeQueue(kind, sorted)), NextOp(kind, sorted)>>, failAt)

put_pov_pruning(st, tx, q, failAt) == put_pruning("pov", st, tx, q, failAt)
put_chunk_pruning(st, tx, q, failAt) == put_pruning("chunk", st, tx, q, failAt)

\* ------------------------------------------------------------ storage ops
\* get_chunks: the n_validators erasure chunks of the data, chunk i at i + 1.
ChunkBytes(pov, index) == <<pov, index>>
get_chunks(data, n_validators) == [i \in 1..n_validators |-> [chunk |-> ChunkBytes(data.pov, i - 1), index |-> i - 1]]

NextPutIfSome(kind, prune_at) == IF IsSome(as_duration(prune_at)) THEN <<TxPut("META", NextKey(kind), Unwrap(as_duration(prune_at)))>> ELSE <<>>

store_chunk(st, t, c, chunk, block_number, failAt) == LET q == unwrap_or_default(chunk_pruning(st.db)) prune_at == into_the_future(t, KEEP_STORED_BLOCK_FOR) pruning_record == [candidate_hash |-> c, block_number |-> block_number, candidate_state |-> "Stored", chunk_index |-> chunk.index, prune_at |-> prune_at] idx == binary_search("chunk", q, pruning_record) q2 == insert(q, idx, pruning_record) IN db_write(st, NextPutIfSome("chunk", prune_at) \o <<TxPut("DATA", erasure_chunk_key(c, chunk.index), EncodeChunk(chunk)), TxPut("META", CHUNK_PRUNING_KEY, EncodeQueue("chunk", q2))>>, failAt)

\* The part of store_available_data after the optional own chunk.
StoreData(st, t, c, n_validators, data, failAt) == LET q == unwrap_or_default(pov_pruning(st.db)) prune_at == into_the_future(t, KEEP_STORED_BLOCK_FOR) pruning_record == [candidate_hash |-> c, block_number |-> data.block_number, candidate_state |-> "Stored", prune_at |-> prune_at] idx == binary_search("pov", q, pruning_record) q2 == insert(q, idx, pruning_record) IN db_write(st, NextPutIfSome("pov", prune_at) \o <<TxPut("DATA", available_data_key(c), EncodeStoredData([data |-> data, n_validators |-> n_validators])), TxPut("META", POV_PRUNING_KEY, EncodeQueue("pov", q2))>>, failAt)

\* store_available_data; id is the Option<ValidatorIndex>. chunks[index] with
\* index >= n_validators is an out-of-bounds panic.
store_available_data(st, t, c, id, n_validators, data, failAt) == IF IsSome(id) /\ Unwrap(id) >= n_validators THEN [st EXCEPT !.err = "panic"] ELSE LET st1 == IF IsSome(id) THEN store_chunk(st, t, c, get_chunks(data, n_validators)[Unwrap(id) + 1], data.block_number, failAt) ELSE st IN IF st1.err # "none" THEN st1 ELSE StoreData(st1, t, c, n_validators, data, failAt)

\* get_chunk's loop: store_chunk(..)? for every chunk, in order.
RECURSIVE StoreAll(_, _, _, _, _, _)
StoreAll(st, t, c, chunks, block_number, failAt) == IF chunks = <<>> \/ st.err # "none" THEN st ELSE StoreAll(store_chunk(st, t, c, Head(chunks), block_number, failAt), t, c, Tail(chunks), block_number, failAt)

\* A get_chunk that derives the chunks from the full data whenever there is
\* full data, stored chunk or not.
GetChunkRegenerating(st, t, c, index, failAt) == LET hit == stored_chunk(st.db, c, index) data == available_data(st.db, c) IN IF IsSome(data) THEN LET chunks == get_chunks(Unwrap(data).data, Unwrap(data).n_validators) IN [st |-> StoreAll(st, t, c, chunks, Unwrap(data).data.block_number, failAt), value |-> IF index < Len(chunks) THEN Some(chunks[index + 1]) ELSE None] ELSE [st |-> st, value |-> hit]

\* get_chunk: the handler's progress, and the Option<ErasureChunk> it
\* returns when no store failed.
get_chunk(st, t, c, index, failAt) == LET hit == stored_chunk(st.db, c, index) data == available_data(st.db, c) IN IF IsSome(hit) THEN [st |-> st, value |-> hit] ELSE IF IsSome(data) THEN LET chunks == get_chunks(Unwrap(data).data, Unwrap(data).n_validators) IN [st |-> StoreAll(st, t, c, chunks, Unwrap(data).data.block_number, failAt), value |-> IF index < Len(chunks) THEN Some(chunks[index + 1]) ELSE None] ELSE [st |-> st, value |-> None]

\* ------------------------------------------------------------- pruning
\* iter().take_while(|r| r.prune_at <= now).count()
RECURSIVE outdated_records_count(_, _)
outdated_records_count(q, t) == IF q # <<>> /\ CmpDelay(Head(q).prune_at, In(t)) # Greater THEN 1 + outdated_records_count(Tail(q), t) ELSE 0

RecordKey(kind, r) == IF kind = "pov" THEN available_data_key(r.candidate_hash) ELSE erasure_chunk_key(r.candidate_hash, r.chunk_index)

\* A drain that forgets the deletes.
DrainNothing(kind, q, count) == <<>>

\* The deletes of the drained records, in order.
DrainDeletes(kind, q, count) == [i \in 1..count |-> TxDelete("DATA", RecordKey(kind, q[i]))]

\* prune_povs / prune_chunks
prune(kind, st, t, failAt) == LET q == unwrap_or_default(pruning(kind, st.db)) count == outdated_records_count(q, t) IN put_pruning(kind, st, DrainDeletes(kind, q, count), SubSeq(q, count + 1, Len(q)), failAt)

prune_povs(st, t, failAt) == prune("pov", st, t, failAt)
prune_chunks(st, t, failAt) == prune("chunk", st, t, failAt)

\* ------------------------------------------------------- lifetime engine
keep_finalized_for(kind) == IF kind = "pov" THEN KEEP_FINALIZED_BLOCK_FOR ELSE KEEP_FINALIZED_CHUNK_FOR

\* A finalization that leaves the records of the finalized block itself.
PatchFinalizedBelow(kind, q, t, block_number) == [i \in 1..Len(q) |-> IF q[i].block_number < block_number THEN [q[i] EXCEPT !.prune_at = into_the_future(t, keep_finalized_for(kind)), !.candidate_state = "Finalized"] ELSE q[i]]

\* The loop over the records in process_block_finalized.
PatchFinalized(kind, q, t, block_number) == [i \in 1..Len(q) |-> IF q[i].block_number <= block_number THEN [q[i] EXCEPT !.prune_at = into_the_future(t, keep_finalized_for(kind)), !.candidate_state = "Finalized"] ELSE q[i]]

\* An activation that marks only the records still in state Stored.
PatchIncludedStored(q, included) == [i \in 1..Len(q) |-> IF q[i].candidate_hash \in included /\ q[i].candidate_state = "Stored" THEN [q[i] EXCEPT !.prune_at = Indefinite, !.candidate_state = "Included"] ELSE q[i]]

\* The loop over the records in process_block_activated.
PatchIncluded(q, included) == [i \in 1..Len(q) |-> IF q[i].candidate_hash \in included THEN [q[i] EXCEPT !.prune_at = Indefinite, !.candidate_state = "Included"] ELSE q[i]]

\* The state changes a patch makes, position by position.
Transitions(q, patched) == {<<q[i].candidate_state, patched[i].candidate_state>> : i \in 1..Len(q)}

\* A put_*_pruning of a patched queue; a committed batch records its changes.
PutPatched(kind, st, q, patched, toWrite, failAt) == LET st2 == put_pruning(kind, st, <<>>, toWrite, failAt) IN IF st2.err = "none" THEN [st2 EXCEPT !.trans = @ \cup Transitions(q, patched)] ELSE st2

\* One "if let Some(mut ..._pruning)" block of process_block_finalized.
FinalizeQueue(kind, st, t, block_number, failAt) == LET q == pruning(kind, st.db) IN IF st.err = "none" /\ IsSome(q) THEN LET patched == PatchFinalized(kind, Unwrap(q), t, block_number) IN PutPatched(kind, st, Unwrap(q), patched, patched, failAt) ELSE st

process_block_finalized(st, t, block_number, failAt) == FinalizeQueue("chunk", FinalizeQueue("pov", st, t, block_number, failAt), t, block_number, failAt)

\* One "if let Some(mut ..._pruning)" block of process_block_activated.
ActivateQueue(kind, st, included, failAt) == LET q == pruning(kind, st.db) IN IF st.err = "none" /\ IsSome(q) THEN LET patched == PatchIncluded(Unwrap(q), included) IN PutPatched(kind, st, Unwrap(q), patched, sort(kind, patched), failAt) ELSE st

\* process_block_activated; events is the reply to the candidate-events
\* request: a failure, or the set of hashes of its CandidateIncluded events.
process_block_activated(st, events, failAt) == IF ~events.ok THEN st ELSE ActivateQueue("chunk", ActivateQueue("pov", st, events.included, failAt), events.included, failAt)

\* The loop over the activated leaves, each with "?".
RECURSIVE ActivateAll(_, _, _)
ActivateAll(st, activated, failAt) == IF activated = <<>> \/ st.err # "none" THEN st ELSE ActivateAll(process_block_activated(st, Head(activated), failAt), Tail(activated), failAt)

\* ----------------------------------------------------------- environment
\* Replies to the candidate-events request of one activated leaf.
EventReplies == {[ok |-> FALSE, included |-> {}]} \cup {[ok |-> TRUE, included |-> I] : I \in SUBSET Candidates}
ActivatedLists == UNION {[1..n -> EventReplies] : n \in 1..MaxLeaves}

\* Replies to the chain API's BlockNumber request for c's relay parent: a
\* failure, no such block, or the relay parent's number.
BlockNumberReplies(c) == {[ok |-> FALSE, number |-> None], [ok |-> TRUE, number |-> None], [ok |-> TRUE, number |-> Some(BlockOf(c) - 1)]}

DataOf(c) == [pov : PoVs, block_number : {BlockOf(c)}]
Chunks == {[chunk |-> ChunkBytes(p, i), index |-> i] : p \in PoVs, i \in ChunkIndices}
\* A validator index of NValidators is out of range.
ValidatorIds == {None} \cup {Some(i) : i \in 0..NValidators}

QueueLen(kind, d) == Len(unwrap_or_default(pruning(kind, d)))

\* -------------------------------------------------------------- handlers
\* What process_message does with each message, as the handler's progress
\* (the store it leaves, the batches it committed, its error) and the reply
\* it sends on the message's channel: Some(value), or None when it returns
\* before sending.

\* A get_block_number that answers Ok(0) on a failed request as well.
GetBlockNumberOrZero(reply) == [ok |-> TRUE, number |-> IF reply.ok /\ IsSome(reply.number) THEN Unwrap(reply.number) ELSE 0]

\* get_block_number: Ok(number or 0), or the request's error.
get_block_number(reply) == IF reply.ok THEN [ok |-> TRUE, number |-> IF IsSome(reply.number) THEN Unwrap(reply.number) ELSE 0] ELSE [ok |-> FALSE, number |-> 0]

HandleQueryAvailableData(d, c) == LET found == available_data(d, c) IN [st |-> Begin(d), reply |-> Some(IF IsSome(found) THEN Some(Unwrap(found).data) ELSE None)]

HandleQueryDataAvailability(d, c) == [st |-> Begin(d), reply |-> Some(IsSome(available_data(d, c)))]

HandleQueryChunk(d, t, c, index, failAt) == LET r == get_chunk(Begin(d), t, c, index, failAt) IN [st |-> r.st, reply |-> IF r.st.err = "none" THEN Some(r.value) ELSE None]

HandleQueryChunkAvailability(d, t, c, index, failAt) == LET r == get_chunk(Begin(d), t, c, index, failAt) IN [st |-> r.st, reply |-> IF r.st.err = "none" THEN Some(IsSome(r.value)) ELSE None]

HandleStoreChunk(d, t, c, chunk, reply, failAt) == LET number == get_block_number(reply) IN IF ~number.ok THEN [st |-> [Begin(d) EXCEPT !.err = "ChainApi"], reply |-> None] ELSE LET st == store_chunk(Begin(d), t, c, chunk, number.number + 1, failAt) IN [st |-> st, reply |-> Some(IF st.err = "none" THEN "Ok" ELSE "Err")]

HandleStoreAvailableData(d, t, c, id, n_validators, data, failAt) == LET st == store_available_data(Begin(d), t, c, id, n_validators, data, failAt) IN [st |-> st, reply |-> IF st.err = "panic" THEN None ELSE Some(IF st.err = "none" THEN "Ok" ELSE "Err")]

\* tx.send(reply).map_err(|_| oneshot::Canceled)?: the reply of outcome h
\* reaches a requester that is listening; one that has dropped its end of
\* the channel turns the iteration's result into Err(Canceled). Nothing is
\* sent when the handler has returned before its send.
Send(h, listening) == IF h.reply = None \/ listening THEN [st |-> h.st, reply |-> h.reply, received |-> IF listening THEN h.reply ELSE None] ELSE [st |-> [h.st EXCEPT !.err = "Canceled"], reply |-> h.reply, received |-> None]

\* A StoreChunk that stores only for a requester that is listening.
ProcessStoreChunkIfHeard(d, t, c, chunk, reply, failAt, listening) == IF listening THEN Send(HandleStoreChunk(d, t, c, chunk, reply, failAt), TRUE) ELSE [st |-> [Begin(d) EXCEPT !.err = "Canceled"], reply |-> None, received |-> None]

\* process_message on a StoreChunk, its reply included.
ProcessStoreChunk(d, t, c, chunk, reply, failAt, listening) == Send(HandleStoreChunk(d, t, c, chunk, reply, failAt), listening)

\* process_message on a StoreAvailableData, its reply included.
ProcessStoreAvailableData(d, t, c, id, n_validators, data, failAt, listening) == Send(HandleStoreAvailableData(d, t, c, id, n_validators, data, failAt), listening)

\* A fault index names a db.write the handler reaches.
Faulted(st, failAt) == failAt > 0 => st.err = "Io"

\* ---------------------------------------------------------------- actions
\* frozen[c] holds from a block activation that reports c as included while
\* data for c is stored, until a BlockFinalized at c's height or above.
Init == /\ db = [DATA |-> EmptyColumn, META |-> EmptyColumn]
        /\ now = 0
        /\ ticks = 0
        /\ loop = "running"
        /\ frozen = [c \in Candidates |-> FALSE]

\* The clock advances between two iterations.
Tick(d) == /\ loop = "running"
           /\ now' = now + d
           /\ ticks' = ticks + 1
           /\ UNCHANGED <<db, loop, frozen>>

\* A run that logs the error of an iteration and breaks.
AfterIterationBreak(err) == IF err = "none" THEN "running" ELSE IF err = "panic" THEN "panicked" ELSE "concluded"

\* Where run is after an iteration that returned with err: at the top of
\* the loop again, at e.trace() with the error, or dead with the thread.
AfterIteration(err) == IF err = "none" THEN "running" ELSE IF err = "panic" THEN "panicked" ELSE err

\* run logs the error of the iteration and goes on.
Trace == /\ loop \notin {"running", "concluded", "panicked"}
         /\ loop' = "running"
         /\ UNCHANGED <<db, now, ticks, frozen>>

\* OverseerSignal::Conclude
Conclude == /\ loop = "running"
            /\ loop' = "concluded"
            /\ UNCHANGED <<db, now, ticks, frozen>>

\* AvailabilityStoreMessage::QueryAvailableData
QueryAvailableData(c) == /\ loop = "running"
                         /\ \E listening \in BOOLEAN : LET h == Send(HandleQueryAvailableData(db, c), listening) IN db' = h.st.db /\ loop' = AfterIteration(h.st.err)
                         /\ UNCHANGED <<now, ticks, frozen>>

\* AvailabilityStoreMessage::QueryDataAvailability
QueryDataAvailability(c) == /\ loop = "running"
                            /\ \E listening \in BOOLEAN : LET h == Send(HandleQueryDataAvailability(db, c), listening) IN db' = h.st.db /\ loop' = AfterIteration(h.st.err)
                            /\ UNCHANGED <<now, ticks, frozen>>

\* AvailabilityStoreMessage::QueryChunk
QueryChunk(c, index, failAt) == /\ loop = "running"
                                /\ LET h0 == HandleQueryChunk(db, now, c, index, failAt) IN Faulted(h0.st, failAt) /\ \E listening \in BOOLEAN : LET h == Send(h0, listening) IN db' = h.st.db /\ loop' = AfterIteration(h.st.err)
                                /\ UNCHANGED <<now, ticks, frozen>>

\* AvailabilityStoreMessage::QueryChunkAvailability
QueryChunkAvailability(c, index, failAt) == /\ loop = "running"
                                            /\ LET h0 == HandleQueryChunkAvailability(db, now, c, index, failAt) IN Faulted(h0.st, failAt) /\ \E listening \in BOOLEAN : LET h == Send(h0, listening) IN db' = h.st.db /\ loop' = AfterIteration(h.st.err)
                                            /\ UNCHANGED <<now, ticks, frozen>>

\* AvailabilityStoreMessage::StoreChunk
StoreChunk(c, chunk, reply, failAt) == /\ loop = "running"
                                       /\ LET h0 == HandleStoreChunk(db, now, c, chunk, reply, failAt) IN Faulted(h0.st, failAt) /\ \E listening \in BOOLEAN : LET h == Send(h0, listening) IN db' = h.st.db /\ loop' = AfterIteration(h.st.err)
                                       /\ UNCHANGED <<now, ticks, frozen>>

\* AvailabilityStoreMessage::StoreAvailableData
StoreAvailableData(c, id, n_validators, data, failAt) == /\ loop = "running"
                                                         /\ LET h0 == HandleStoreAvailableData(db, now, c, id, n_validators, data, failAt) IN Faulted(h0.st, failAt) /\ \E listening \in BOOLEAN : LET h == Send(h0, listening) IN db' = h.st.db /\ loop' = AfterIteration(h.st.err)
                                                         /\ UNCHANGED <<now, ticks, frozen>>

\* The hashes the activated leaves report as included.
Reported(activated) == UNION {activated[i].included : i \in 1..Len(activated)}

\* The PoV queue holds a record of c that an activation has marked.
MarkedIncluded(d, c) == LET q == unwrap_or_default(pov_pruning(d)) IN \E i \in 1..Len(q) : q[i].candidate_hash = c /\ q[i].candidate_state = "Included" /\ q[i].prune_at = Indefinite

\* OverseerSignal::ActiveLeaves
ActiveLeaves(activated, failAt) == /\ loop = "running"
                                   /\ LET st == ActivateAll(Begin(db), activated, failAt) IN Faulted(st, failAt) /\ db' = st.db /\ loop' = AfterIteration(st.err)
                                   /\ frozen' = [c \in Candidates |-> frozen[c] \/ (c \in Reported(activated) /\ IsSome(available_data(db, c)) /\ MarkedIncluded(ActivateAll(Begin(db), activated, failAt).db, c))]
                                   /\ UNCHANGED <<now, ticks>>

\* OverseerSignal::BlockFinalized
BlockFinalized(number, failAt) == /\ loop = "running"
                                  /\ LET st == process_block_finalized(Begin(db), now, number, failAt) IN Faulted(st, failAt) /\ db' = st.db /\ loop' = AfterIteration(st.err)
                                  /\ frozen' = [c \in Candidates |-> frozen[c] /\ BlockOf(c) > number]
                                  /\ UNCHANGED <<now, ticks>>

\* A timer that fires as soon as a wakeup is cached, whatever the clock.
TimerArmed(kind) == IsSome(get_next_pruning_time(kind, db))

\* The timer of maybe_prune_povs / maybe_prune_chunks has fired: the cached
\* wakeup was present when the iteration began and the clock has reached it.
TimerFired(kind) == LET next == get_next_pruning_time(kind, db) IN IsSome(next) /\ Unwrap(next) <= now

\* The PoV timer branch of the select.
PrunePoVs(failAt) == /\ loop = "running"
                     /\ TimerFired("pov")
                     /\ LET st == prune_povs(Begin(db), now, failAt) IN db' = st.db /\ loop' = AfterIteration(st.err)
                     /\ UNCHANGED <<now, ticks, frozen>>

\* The chunk timer branch of the select.
PruneChunks(failAt) == /\ loop = "running"
                       /\ TimerFired("chunk")
                       /\ LET st == prune_chunks(Begin(db), now, failAt) IN db' = st.db /\ loop' = AfterIteration(st.err)
                       /\ UNCHANGED <<now, ticks, frozen>>

\* ---------------------------------------------------------- specifications
\* The bounds of the exploration. get_chunk adds pruning records only when it
\* regenerates the chunks.
HasRoom == QueueLen("pov", db) + QueueLen("chunk", db) < MaxRecords
RoomForChunks(c, index) == IsSome(stored_chunk(db, c, index)) \/ ~IsSome(available_data(db, c)) \/ HasRoom
PoVRoom == QueueLen("pov", db) < MaxPoVRecords

\* The whole subsystem.
Next == \/ ticks < MaxTicks /\ Tick(KEEP_STORED_BLOCK_FOR)
        \/ Trace
        \/ Conclude
        \/ \E c \in Candidates : QueryAvailableData(c)
        \/ \E c \in Candidates : QueryDataAvailability(c)
        \/ \E c \in Candidates, index \in 0..NValidators, failAt \in 0..NValidators : RoomForChunks(c, index) /\ QueryChunk(c, index, failAt)
        \/ \E c \in Candidates, index \in 0..NValidators, failAt \in 0..NValidators : RoomForChunks(c, index) /\ QueryChunkAvailability(c, index, failAt)
        \/ HasRoom /\ \E c \in Candidates, chunk \in Chunks, failAt \in 0..1 : \E reply \in BlockNumberReplies(c) : StoreChunk(c, chunk, reply, failAt)
        \/ HasRoom /\ \E c \in Candidates, id \in ValidatorIds, failAt \in 0..2 : \E data \in DataOf(c) : StoreAvailableData(c, id, NValidators, data, failAt)
        \/ \E activated \in ActivatedLists, failAt \in 0..(2 * MaxLeaves) : ActiveLeaves(activated, failAt)
        \/ \E number \in 1..MaxBlock, failAt \in 0..2 : BlockFinalized(number, failAt)
        \/ \E failAt \in 0..1 : PrunePoVs(failAt)
        \/ \E failAt \in 0..1 : PruneChunks(failAt)

Spec == Init /\ [][Next]_vars

\* The subsystem when no chunk is stored or queried: the messages, signals
\* and timer that read or write the full data and the PoV queue.
NextPoV == \/ ticks < MaxPoVTicks /\ \E d \in TickSteps : Tick(d)
           \/ Trace
           \/ \E c \in Candidates : QueryAvailableData(c)
           \/ PoVRoom /\ \E c \in Candidates, failAt \in 0..1 : \E data \in DataOf(c) : StoreAvailableData(c, None, NValidators, data, failAt)
           \/ \E activated \in ActivatedLists, failAt \in 0..1 : ActiveLeaves(activated, failAt)
           \/ \E number \in 1..MaxBlock, failAt \in 0..1 : BlockFinalized(number, failAt)
           \/ \E failAt \in 0..1 : PrunePoVs(failAt)

SpecPoV == Init /\ [][NextPoV]_vars

\* The instant after which the overseer and the peers send nothing more, and
\* an instant by which every deadline set before has passed.
QuietAt == 2
Horizon == QuietAt + KEEP_FINALIZED_BLOCK_FOR

\* The clock advances hour by hour while messages arrive, then to Horizon.
LiveTick == now < Horizon /\ Tick(IF now < QuietAt THEN KEEP_STORED_BLOCK_FOR ELSE Horizon - now)

\* The full data and the PoV queue while the database works and the control
\* loop always gets to run: run (lib.rs:494-511) calls run_iteration again
\* after every iteration, and the select of run_iteration (lib.rs:530-556)
\* takes a timer branch that is ready again and again.
NextPoVFair == \/ LiveTick
               \/ Trace
               \/ now < QuietAt /\ PoVRoom /\ \E c \in Candidates : \E data \in DataOf(c) : StoreAvailableData(c, None, NValidators, data, 0)
               \/ now < QuietAt /\ \E activated \in ActivatedLists : ActiveLeaves(activated, 0)
               \/ now < QuietAt /\ \E number \in 1..MaxBlock : BlockFinalized(number, 0)
               \/ PrunePoVs(0)

\* ENABLED <<PrunePoVs(0)>>_vars written out: the PoV timer has elapsed and
\* the wave would change the store.
PoVWaveReady == loop = "running" /\ TimerFired("pov") /\ prune_povs(Begin(db), now, 0).db # db

\* The clock advances, run gets past its log line, and the PoV wave is
\* strongly fair: SF_vars(PrunePoVs(0)) with its ENABLED written out.
SpecPoVFair == Init /\ [][NextPoVFair]_vars /\ SF_vars(LiveTick) /\ WF_vars(Trace) /\ (<>[]~PoVWaveReady \/ []<><<PrunePoVs(0)>>_vars)

\* ------------------------------------------------- the stored structures
PoVQueue == unwrap_or_default(pov_pruning(db))
ChunkQueue == unwrap_or_default(chunk_pruning(db))

\* A queue is in ascending order of prune_at, Indefinite last.
Sorted(q) == \A i, j \in 1..Len(q) : i < j => CmpDelay(q[i].prune_at, q[j].prune_at) # Greater

\* The identity of a record: the candidate hash, and the chunk index too in
\* the chunk queue.
Identity(kind, r) == IF kind = "pov" THEN <<r.candidate_hash>> ELSE <<r.candidate_hash, r.chunk_index>>
OnePerIdentity(kind, q) == \A i, j \in 1..Len(q) : Identity(kind, q[i]) = Identity(kind, q[j]) => i = j

\* The cached wakeup is absent when the queue is empty or its head is
\* Indefinite, and is the head's deadline otherwise.
NextAgrees(kind, d) == LET q == unwrap_or_default(pruning(kind, d)) IN get_next_pruning_time(kind, d) = (IF q # <<>> /\ q[1].prune_at.tag = "In" THEN Some(q[1].prune_at.d) ELSE None)

HasRecord(kind, q, id) == \E i \in 1..Len(q) : Identity(kind, q[i]) = id

\* ------------------------------------------------------------------ C1
\* C1: after every operation both pruning queues are in ascending order of
\* prune_at, with Indefinite after every deadline.
C1_QueuesSorted == Sorted(PoVQueue) /\ Sorted(ChunkQueue)

\* ------------------------------------------------------------------ C2
\* C2: each queue holds at most one record per identity: one per candidate
\* hash in the PoV queue, one per (candidate hash, chunk index) in the chunk
\* queue.
C2_OneRecordPerIdentity == OnePerIdentity("pov", PoVQueue) /\ OnePerIdentity("chunk", ChunkQueue)

\* ------------------------------------------------------------------ C3
\* C3: each cached wakeup is present exactly when its queue is non-empty with
\* a head that has a deadline, and then it equals that deadline.
C3_NextIsHead == NextAgrees("pov", db) /\ NextAgrees("chunk", db)

\* ------------------------------------------------------------------ C4
\* C4: every full-data key and every chunk key in the data column has a
\* pruning record of the same identity in the matching queue.
C4_DataHasRecord == /\ \A c \in Candidates : IsSome(available_data(db, c)) => HasRecord("pov", PoVQueue, <<c>>)
                    /\ \A c \in Candidates, index \in ChunkIndices : IsSome(stored_chunk(db, c, index)) => HasRecord("chunk", ChunkQueue, <<c, index>>)

\* C4's case: a pruning wave has drained the whole PoV queue, which is
\* stored empty, while a chunk and its record are still stored.
C4_Witness == /\ pov_pruning(db) = Some(<<>>)
              /\ \E c \in Candidates, index \in ChunkIndices : IsSome(stored_chunk(db, c, index)) /\ HasRecord("chunk", ChunkQueue, <<c, index>>)

\* ------------------------------------------------------------------ C5
\* Every state change of a committed patch goes forward in the order
\* Stored, Included, Finalized, or stays.
Forward(trans) == \A tr \in trans : EncodeState(tr[1]) <= EncodeState(tr[2])

\* C5: whatever block activation or block finalization is processed next,
\* no record of either queue changes state backwards: a Finalized record does
\* not become Included or Stored, an Included record does not become Stored.
C5_StateNeverBackwards == loop = "running" =>
                          /\ \A activated \in ActivatedLists, failAt \in 0..(2 * MaxLeaves) : Forward(ActivateAll(Begin(db), activated, failAt).trans)
                          /\ \A number \in 1..MaxBlock, failAt \in 0..2 : Forward(process_block_finalized(Begin(db), now, number, failAt).trans)

\* ------------------------------------------------------------------ C6
\* An operation that commits at most one batch, and none when it fails.
AtomicOutcome(st) == st.writes <= 1 /\ (st.err = "Io" => st.writes = 0)

\* C6: whatever logical operation is processed next, with a write failure at
\* any of its writes or none, it commits its puts and deletes in one batch:
\* all of its effects are persisted, or none.
C6_OneBatchPerOperation == loop = "running" =>
                           /\ \A c \in Candidates, id \in ValidatorIds, failAt \in 0..2 : \A data \in DataOf(c) : AtomicOutcome(store_available_data(Begin(db), now, c, id, NValidators, data, failAt))
                           /\ \A c \in Candidates, chunk \in Chunks, failAt \in 0..1 : AtomicOutcome(store_chunk(Begin(db), now, c, chunk, BlockOf(c), failAt))
                           /\ \A c \in Candidates, index \in ChunkIndices, failAt \in 0..NValidators : AtomicOutcome(get_chunk(Begin(db), now, c, index, failAt).st)
                           /\ \A activated \in ActivatedLists, failAt \in 0..(2 * MaxLeaves) : AtomicOutcome(ActivateAll(Begin(db), activated, failAt))
                           /\ \A number \in 1..MaxBlock, failAt \in 0..2 : AtomicOutcome(process_block_finalized(Begin(db), now, number, failAt))
                           /\ \A failAt \in 0..1 : AtomicOutcome(prune_povs(Begin(db), now, failAt)) /\ AtomicOutcome(prune_chunks(Begin(db), now, failAt))

\* ------------------------------------------------------------------ C7
\* An operation that leaves store d leaves the data of every candidate in
\* cs as it was.
Keeps(d, cs) == \A c \in cs : available_data(d, c) = available_data(db, c)

\* Every operation other than a store of data and a PoV pruning wave,
\* processed next, leaves every candidate's data as it was.
OthersKeep == /\ \A c \in Candidates, index \in 0..NValidators, failAt \in 0..NValidators : Keeps(HandleQueryChunk(db, now, c, index, failAt).st.db, Candidates)
              /\ \A activated \in ActivatedLists, failAt \in 0..(2 * MaxLeaves) : Keeps(ActivateAll(Begin(db), activated, failAt).db, Candidates)
              /\ \A number \in 1..MaxBlock, failAt \in 0..2 : Keeps(process_block_finalized(Begin(db), now, number, failAt).db, Candidates)
              /\ \A failAt \in 0..1 : Keeps(prune_chunks(Begin(db), now, failAt).db, Candidates)

\* StoreAvailableData(c, id, n, data): if it replies Ok, QueryAvailableData(c)
\* then replies Some(data) and QueryDataAvailability(c) replies true; in any
\* case it leaves the other candidates' data as it was.
StoreDataThenQuery(c, id, data, failAt) == LET h == HandleStoreAvailableData(db, now, c, id, NValidators, data, failAt) IN
                                               /\ h.reply = Some("Ok") => (HandleQueryAvailableData(h.st.db, c).reply = Some(Some(data)) /\ HandleQueryDataAvailability(h.st.db, c).reply = Some(TRUE))
                                               /\ Keeps(h.st.db, Candidates \ {c})

\* StoreChunk(c, chunk): if it replies Ok, QueryChunk(c, chunk.index) then
\* replies Some(chunk); in any case it leaves every candidate's data.
StoreChunkThenQuery(c, chunk, reply, failAt) == LET h == HandleStoreChunk(db, now, c, chunk, reply, failAt) IN
                                                    /\ h.reply = Some("Ok") => HandleQueryChunk(h.st.db, now, c, chunk.index, 0).reply = Some(Some(chunk))
                                                    /\ Keeps(h.st.db, Candidates)

\* C7: a StoreAvailableData(c, _, n, data) that replies Ok leaves a store on
\* which QueryAvailableData(c) replies Some(data), the stored bytes, and
\* QueryDataAvailability(c) replies true; a StoreChunk of (c, chunk) that
\* replies Ok leaves a store on which QueryChunk(c, chunk.index) replies
\* Some(chunk); and no operation but a store of c's data and a PoV pruning
\* wave changes the data stored for c.
C7_StoreThenQuery == loop = "running" =>
                     /\ \A c \in Candidates, id \in ValidatorIds, failAt \in 0..2 : \A data \in DataOf(c) : StoreDataThenQuery(c, id, data, failAt)
                     /\ \A c \in Candidates, chunk \in Chunks, failAt \in 0..1 : \A reply \in BlockNumberReplies(c) : StoreChunkThenQuery(c, chunk, reply, failAt)
                     /\ OthersKeep

\* C7's case: stores have replied Ok: a candidate's data is stored with one
\* proof of validity, and a chunk of the other proof of validity is stored
\* for a candidate that has no data (so StoreChunk stored it).
C7_Witness == /\ \E c \in Candidates : HandleQueryAvailableData(db, c).reply = Some(Some([pov |-> 2, block_number |-> BlockOf(c)]))
              /\ \E c \in Candidates, index \in ChunkIndices : ~IsSome(available_data(db, c)) /\ stored_chunk(db, c, index) = Some([chunk |-> ChunkBytes(1, index), index |-> index])

\* ------------------------------------------------------------------ C8
\* C8: data stored for c at time t is there at every time before
\* t + keep_stored_block_for: as long as the PoV queue holds a record of c in
\* state Stored (no activation or finalization has touched it) whose deadline
\* is still in the future, QueryAvailableData(c) replies Some.
C8_StoredDataKept == \A i \in 1..Len(PoVQueue) : LET r == PoVQueue[i] IN (r.candidate_state = "Stored" /\ CmpDelay(r.prune_at, In(now)) = Greater) => IsSome(Unwrap(HandleQueryAvailableData(db, r.candidate_hash).reply))

\* ------------------------------------------------------------------ C9
\* The store a PoV pruning wave leaves when it fires now.
AfterPoVWave == prune_povs(Begin(db), now, 0).db
\* A record no activation or finalization has touched, whose prune_at the
\* clock has reached.
ExpiredStored(r) == r.candidate_state = "Stored" /\ CmpDelay(r.prune_at, In(now)) # Greater

\* C9: when the PoV pruning wave fires, every record in state Stored whose
\* prune_at the clock has reached is gone from the queue and
\* QueryAvailableData of its candidate replies None; and if the wave leaves
\* the queue empty, next_pov_pruning is absent.
C9_ExpiredStoredPruned == (loop = "running" /\ TimerFired("pov")) => LET q2 == unwrap_or_default(pov_pruning(AfterPoVWave)) IN
                              /\ \A i \in 1..Len(PoVQueue) : ExpiredStored(PoVQueue[i]) => (HandleQueryAvailableData(AfterPoVWave, PoVQueue[i].candidate_hash).reply = Some(None) /\ \A j \in 1..Len(q2) : q2[j] # PoVQueue[i])
                              /\ (q2 = <<>> => get_next_pruning_time("pov", AfterPoVWave) = None)

\* ----------------------------------------------------------------- C10
\* C10: from a block activation that reports c as included while data for c
\* is stored, until a BlockFinalized at c's height or above, the data for c
\* is stored.
C10_IncludedDataKept == \A c \in Candidates : frozen[c] => IsSome(available_data(db, c))

\* ----------------------------------------------------------------- C11
\* The records of a queue with their multiplicities, whatever their order.
BagOfSeq(q) == [x \in {q[i] : i \in 1..Len(q)} |-> Cardinality({i \in 1..Len(q) : q[i] = x})]

\* What BlockFinalized(_, H) at time t is to make of record r.
FinalizedAt(kind, r, H, t) == IF r.block_number <= H THEN [r EXCEPT !.candidate_state = "Finalized", !.prune_at = In(t + (IF kind = "pov" THEN KEEP_FINALIZED_BLOCK_FOR ELSE KEEP_FINALIZED_CHUNK_FOR))] ELSE r

\* The queue of store d2 holds the records of q, each finalized if at or
\* below H and unchanged otherwise; an absent queue stays absent.
FinalizedUpTo(kind, d2, H, t) == LET q == pruning(kind, db) IN IF IsSome(q) THEN IsSome(pruning(kind, d2)) /\ BagOfSeq(Unwrap(pruning(kind, d2))) = BagOfSeq([i \in 1..Len(Unwrap(q)) |-> FinalizedAt(kind, Unwrap(q)[i], H, t)]) ELSE ~IsSome(pruning(kind, d2))

\* C11: a BlockFinalized(_, H) that is processed next sets, in both queues,
\* every record with block_number <= H, whatever its state, to Finalized
\* with prune_at = now + keep_finalized_block_for (PoV) or
\* now + keep_finalized_chunk_for (chunk), and leaves every other record's
\* state and prune_at.
C11_FinalizedUpToHeight == loop = "running" => \A H \in 1..MaxBlock, kind \in {"pov", "chunk"} : FinalizedUpTo(kind, process_block_finalized(Begin(db), now, H, 0).db, H, now)

\* C11's case: a finalization has marked a record and left one of a higher
\* block in the same queue.
C11_Witness == \E q \in {PoVQueue, ChunkQueue} : \E i, j \in 1..Len(q) : q[i].candidate_state = "Finalized" /\ q[j].candidate_state # "Finalized" /\ q[j].block_number > q[i].block_number

\* ----------------------------------------------------------------- C12
\* The queue of store d2 holds the records of store d1's queue, those at or
\* below H with the deadline a finalization at time t gives them.
SameButDeadlines(kind, d1, d2, H, t) == LET q == pruning(kind, d1) IN IF IsSome(q) THEN IsSome(pruning(kind, d2)) /\ BagOfSeq(Unwrap(pruning(kind, d2))) = BagOfSeq([i \in 1..Len(Unwrap(q)) |-> FinalizedAt(kind, Unwrap(q)[i], H, t)]) ELSE ~IsSome(pruning(kind, d2))

\* A second ActiveLeaves with the same leaves and the same events changes
\* nothing in the store.
ActivatedTwice(activated) == LET s1 == ActivateAll(Begin(db), activated, 0) IN ActivateAll(Begin(s1.db), activated, 0).db = s1.db

\* A second BlockFinalized(_, H), d later than the first, leaves the records
\* of both queues but for the deadlines of those at or below H; at the same
\* time it leaves both queues as they are.
FinalizedTwice(H, d) == LET s1 == process_block_finalized(Begin(db), now, H, 0) s2 == process_block_finalized(Begin(s1.db), now + d, H, 0) IN \A kind \in {"pov", "chunk"} : SameButDeadlines(kind, s1.db, s2.db, H, now + d) /\ (d = 0 => pruning(kind, s2.db) = pruning(kind, s1.db))

\* C12: processing the same signal twice in a row is idempotent: a second
\* ActiveLeaves with the same included set leaves both queues and both
\* cached wakeups as the first left them, and a second BlockFinalized(H)
\* leaves both queues as the first left them except that the deadlines of
\* the affected records are recomputed from the current time.
C12_SameSignalTwice == loop = "running" => (\A activated \in ActivatedLists : ActivatedTwice(activated)) /\ (\A H \in 1..MaxBlock, d \in {0, KEEP_STORED_BLOCK_FOR} : FinalizedTwice(H, d))

\* C12's case: a queue holds an included record next to a finalized one, so
\* that both signals have been processed and a repetition finds records to
\* patch and records to leave.
C12_Witness == \E q \in {PoVQueue, ChunkQueue} : \E i, j \in 1..Len(q) : q[i].candidate_state = "Included" /\ q[j].candidate_state = "Finalized"

\* ----------------------------------------------------------------- C13
\* No chunk of candidate c is in column DATA of store d.
NoChunkStored(d, c) == \A i \in ChunkIndices : ~IsSome(stored_chunk(d, c, i))

\* The positions of the chunk queue q that hold a record of candidate c.
RecordsOf(q, c) == {k \in 1..Len(q) : q[k].candidate_hash = c}

\* Store d2 holds the n chunks of candidate c and its chunk queue holds n
\* records of c, one per index, each Stored.
AllChunksPersisted(d2, c, n) == LET q == unwrap_or_default(chunk_pruning(d2)) IN Cardinality(RecordsOf(q, c)) = n /\ \A j \in 0..(n - 1) : IsSome(stored_chunk(d2, c, j)) /\ \E k \in RecordsOf(q, c) : q[k].chunk_index = j /\ q[k].candidate_state = "Stored"

\* get_chunk(c, i) on full data with no chunk stored returns the chunk
\* derived from the data and persists all of them.
Regenerates(c, i) == LET stored == Unwrap(available_data(db, c)) r == get_chunk(Begin(db), now, c, i, 0) IN /\ r.value = Some([chunk |-> ChunkBytes(stored.data.pov, i), index |-> i]) /\ AllChunksPersisted(r.st.db, c, stored.n_validators)

\* C13: when full data for c is stored with n_validators = n and no chunk
\* of c is stored, get_chunk(c, i) for i < n returns Some(chunk i derived
\* from the data), and afterwards all n chunks of c are in column DATA and
\* the chunk queue holds exactly n records for c, one per index 0..n-1,
\* each in state Stored.
C13_Regenerated == loop = "running" => \A c \in Candidates : (IsSome(available_data(db, c)) /\ NoChunkStored(db, c)) => \A i \in 0..(Unwrap(available_data(db, c)).n_validators - 1) : Regenerates(c, i)

\* ----------------------------------------------------------------- C14
\* After the get_chunk(c, i) that regenerates, a get_chunk(c, j) at the same
\* time or d later answers with the derived chunk j, writes nothing and
\* leaves the store.
SecondFromKey(c, i, j, d) == LET stored == Unwrap(available_data(db, c)) s1 == get_chunk(Begin(db), now, c, i, 0).st r2 == get_chunk(Begin(s1.db), now + d, c, j, 0) IN /\ r2.value = Some([chunk |-> ChunkBytes(stored.data.pov, j), index |-> j]) /\ r2.st.attempts = 0 /\ r2.st.writes = 0 /\ r2.st.db = s1.db

\* C14: after a first get_chunk on a candidate c has regenerated and
\* persisted its chunks, every later get_chunk(c, j) with j < n_validators,
\* before any chunk of c is pruned, returns Some(chunk_j) from the stored
\* key without regenerating: it performs no KV write and leaves the chunk
\* queue and next_chunk_pruning unchanged.
C14_NoSecondRegeneration == loop = "running" => \A c \in Candidates : (IsSome(available_data(db, c)) /\ NoChunkStored(db, c)) => \A i, j \in 0..(Unwrap(available_data(db, c)).n_validators - 1), d \in {0, KEEP_STORED_BLOCK_FOR} : SecondFromKey(c, i, j, d)

\* C14's case: a get_chunk has regenerated the chunks of a candidate whose
\* full data was stored an hour before: the data's record is due at 1h and
\* the records of all its chunks, stored together, at 2h.
C14_Witness == \E c \in Candidates : /\ IsSome(available_data(db, c)) /\ (\E k \in 1..Len(PoVQueue) : PoVQueue[k].candidate_hash = c /\ PoVQueue[k].prune_at = In(KEEP_STORED_BLOCK_FOR)) /\ (\A j \in ChunkIndices : IsSome(stored_chunk(db, c, j)) /\ (\E m \in RecordsOf(ChunkQueue, c) : ChunkQueue[m].chunk_index = j /\ ChunkQueue[m].candidate_state = "Stored" /\ ChunkQueue[m].prune_at = In(2 * KEEP_STORED_BLOCK_FOR)))

\* ----------------------------------------------------------------- C15
\* C15: processing a QueryAvailableData, QueryDataAvailability or
\* QueryChunkAvailability message is read-only: column DATA, both pruning
\* queues and both cached wakeups are the same after the message as before
\* it, in every reachable state, a state where full data for the candidate
\* is stored but the queried chunk is not included.
C15_QueriesReadOnly == loop = "running" => \A c \in Candidates : /\ HandleQueryAvailableData(db, c).st.db = db /\ HandleQueryDataAvailability(db, c).st.db = db /\ \A index \in 0..NValidators : HandleQueryChunkAvailability(db, now, c, index, 0).st.db = db

\* ----------------------------------------------------------------- C16
\* The PoV records that can carry a deadline: Stored ones due an hour after
\* a store, Finalized ones due a day after a finalization.
DatedPoVRecords == {[candidate_hash |-> c, block_number |-> BlockOf(c), candidate_state |-> "Stored", prune_at |-> In(t + KEEP_STORED_BLOCK_FOR)] : c \in Candidates, t \in 0..(QuietAt - 1)} \cup {[candidate_hash |-> c, block_number |-> BlockOf(c), candidate_state |-> "Finalized", prune_at |-> In(t + KEEP_FINALIZED_BLOCK_FOR)] : c \in Candidates, t \in 0..(QuietAt - 1)}

\* Record r is in the PoV queue.
Held(r) == \E i \in 1..Len(PoVQueue) : PoVQueue[i] = r

\* Record r is in the PoV queue and the clock has reached its deadline.
Overdue(r) == Held(r) /\ CmpDelay(r.prune_at, In(now)) # Greater

\* C16: under fairness of the control loop and an advancing clock, every
\* record whose prune_at is At(t) and which is not re-armed by a later
\* activation or finalization is eventually removed from its queue after
\* the clock reaches t: no record with a finite deadline stays in the store
\* forever. (A re-armed record is no longer the record r.)
C16_EventuallyPruned == \A r \in DatedPoVRecords : Overdue(r) ~> ~Held(r)

\* ----------------------------------------------------------------- C17
\* In store d2, the chunk records and the PoV record of one candidate that
\* are at or below H are due keep_finalized_chunk_for -
\* keep_finalized_block_for apart.
GraceApart(d2, H) == LET pq == unwrap_or_default(pov_pruning(d2)) cq == unwrap_or_default(chunk_pruning(d2)) IN \A i \in 1..Len(pq), k \in 1..Len(cq) : (pq[i].candidate_hash = cq[k].candidate_hash /\ pq[i].block_number <= H /\ cq[k].block_number <= H) => (pq[i].prune_at.tag = "In" /\ cq[k].prune_at = In(pq[i].prune_at.d + KEEP_FINALIZED_CHUNK_FOR - KEEP_FINALIZED_BLOCK_FOR))

\* The chunk of every Finalized record that is not due yet is answered by
\* QueryChunk.
FinalizedChunksServed == \A k \in 1..Len(ChunkQueue) : LET r == ChunkQueue[k] IN (r.candidate_state = "Finalized" /\ CmpDelay(r.prune_at, In(now)) = Greater) => IsSome(Unwrap(HandleQueryChunk(db, now, r.candidate_hash, r.chunk_index, 0).reply))

RepliesToOutcome(h, batches) == (h.st.err # "none" => h.reply = Some("Err")) /\ (h.reply = Some("Ok") => (h.st.err = "none" /\ h.st.writes = batches))

\* C18: for StoreChunk and StoreAvailableData, whenever the effect fails (a
\* failure to obtain the relay parent's block number and a KV write failure
\* included) the requester receives the reply Err(()) on its reply channel
\* and the error is returned to the loop; the requester receives Ok(()) only
\* if the store was committed.
C18_ErrReplyOnFailure == loop = "running" => \A c \in Candidates : (\A chunk \in Chunks, reply \in BlockNumberReplies(c), failAt \in 0..1 : RepliesToOutcome(HandleStoreChunk(db, now, c, chunk, reply, failAt), 1)) /\ (\A id \in ValidatorIds, data \in DataOf(c), fail \in 0..2 : RepliesToOutcome(HandleStoreAvailableData(db, now, c, id, NValidators, data, fail), IF IsSome(id) THEN 2 ELSE 1))

\* ----------------------------------------------------------------- C19
\* The StoreChunk of chunk for c, its relay parent looked up with reply, is
\* committed with a record of the given block_number and answered Ok(()).
StoredWithBlock(c, chunk, reply, block_number) == LET h == HandleStoreChunk(db, now, c, chunk, reply, 0) q == unwrap_or_default(chunk_pruning(h.st.db)) IN /\ h.reply = Some("Ok") /\ h.st.err = "none" /\ stored_chunk(h.st.db, c, chunk.index) = Some(chunk) /\ \E k \in 1..Len(q) : q[k] = [candidate_hash |-> c, block_number |-> block_number, candidate_state |-> "Stored", chunk_index |-> chunk.index, prune_at |-> In(now + KEEP_STORED_BLOCK_FOR)]

\* The StoreChunk whose lookup got reply changes nothing, sends nothing and
\* returns the lookup's error.
NotStored(c, chunk, reply) == LET h == HandleStoreChunk(db, now, c, chunk, reply, 0) IN h.st.db = db /\ h.st.attempts = 0 /\ h.reply = None /\ h.st.err = "ChainApi"

\* The original statement of C19: get_block_number returns 0 both when the
\* chain API reports no block number for the hash and when the request
\* fails in any way; it never returns an error, so a StoreChunk whose relay
\* parent cannot be resolved is still stored, with block_number 1.
C19_ZeroOnAnyFailure == loop = "running" => \A c \in Candidates : \A chunk \in Chunks, reply \in BlockNumberReplies(c) : get_block_number(reply).ok /\ (~(reply.ok /\ IsSome(reply.number)) => (get_block_number(reply).number = 0 /\ StoredWithBlock(c, chunk, reply, 1)))

\* C19, amended: get_block_number returns 0 only when the chain API answers
\* that it knows no block number for the hash, and the StoreChunk is then
\* stored with block_number 1; a known number n is returned as it is and
\* the chunk stored with block_number n + 1; when the request fails,
\* get_block_number returns the error, and the StoreChunk stores nothing
\* and sends no reply.
C19_ZeroOnlyWhenUnknown == loop = "running" => \A c \in Candidates : \A chunk \in Chunks, reply \in BlockNumberReplies(c) : IF reply.ok THEN get_block_number(reply) = [ok |-> TRUE, number |-> IF IsSome(reply.number) THEN Unwrap(reply.number) ELSE 0] /\ StoredWithBlock(c, chunk, reply, IF IsSome(reply.number) THEN Unwrap(reply.number) + 1 ELSE 1) ELSE ~get_block_number(reply).ok /\ NotStored(c, chunk, reply)

\* C19's case: a chunk of candidate 2, whose relay parent is block 1 and
\* which belongs to block 2, is recorded with block_number 1: its relay
\* parent was unknown to the chain API when it was stored.
C19_Witness == \E k \in 1..Len(ChunkQueue) : ChunkQueue[k].candidate_hash = 2 /\ ChunkQueue[k].block_number = 1 /\ IsSome(stored_chunk(db, 2, ChunkQueue[k].chunk_index))

\* ----------------------------------------------------------------- C20
\* The outcome of a store whose requester has dropped the reply channel,
\* against the outcome of the same store with the requester listening: the
\* same batches committed, nothing received, and Canceled the iteration's
\* error, which run logs before it goes on.
DroppedAsHeard(heard, dropped) == /\ dropped.st.db = heard.st.db /\ dropped.st.writes = heard.st.writes /\ dropped.received = None /\ (heard.reply # None => (dropped.st.err = "Canceled" /\ AfterIteration(dropped.st.err) = "Canceled")) /\ (heard.reply = None => dropped.st.err = heard.st.err)

\* Store d2 holds the chunk, a record of it and the chunk wakeup of a store
\* at the current time.
ChunkCommitted(d2, c, chunk) == stored_chunk(d2, c, chunk.index) = Some(chunk) /\ HasRecord("chunk", unwrap_or_default(chunk_pruning(d2)), <<c, chunk.index>>) /\ get_next_pruning_time("chunk", d2) = Some(now + KEEP_STORED_BLOCK_FOR)

\* Store d2 holds the full data, a record of it and the PoV wakeup of a
\* store at the current time.
DataCommitted(d2, c, data) == HandleQueryAvailableData(d2, c).reply = Some(Some(data)) /\ HasRecord("pov", unwrap_or_default(pov_pruning(d2)), <<c>>) /\ get_next_pruning_time("pov", d2) = Some(now + KEEP_STORED_BLOCK_FOR)

\* A StoreChunk with the reply channel dropped.
DroppedStoreChunk(c, chunk, reply, failAt) == LET heard == ProcessStoreChunk(db, now, c, chunk, reply, failAt, TRUE) dropped == ProcessStoreChunk(db, now, c, chunk, reply, failAt, FALSE) IN DroppedAsHeard(heard, dropped) /\ (heard.received = Some("Ok") => ChunkCommitted(dropped.st.db, c, chunk))

\* A StoreAvailableData with the reply channel dropped.
DroppedStoreAvailableData(c, id, data, failAt) == LET heard == ProcessStoreAvailableData(db, now, c, id, NValidators, data, failAt, TRUE) dropped == ProcessStoreAvailableData(db, now, c, id, NValidators, data, failAt, FALSE) IN DroppedAsHeard(heard, dropped) /\ (heard.received = Some("Ok") => DataCommitted(dropped.st.db, c, data))

\* C20: if the requester of a StoreChunk or StoreAvailableData has dropped
\* its reply channel, the store's KV batch (artifact bytes, pruning record
\* and cached wakeup) is still committed exactly as if the reply had been
\* delivered; the failed reply only produces a logged error for that
\* iteration.
C20_DroppedReplyStillCommits == loop = "running" => \A c \in Candidates : (\A chunk \in Chunks, reply \in BlockNumberReplies(c) : DroppedStoreChunk(c, chunk, reply, 0)) /\ (\A id \in ValidatorIds, data \in DataOf(c) : DroppedStoreAvailableData(c, id, data, 0))

\* C20's case: run is logging the Canceled of a dropped reply channel while
\* the chunk or the full data of a store at the current time is committed,
\* with its record and its wakeup.
C20_Witness == loop = "Canceled" /\ \E c \in Candidates : (\E chunk \in Chunks : ChunkCommitted(db, c, chunk)) \/ (\E data \in DataOf(c) : DataCommitted(db, c, data))

\* ----------------------------------------------------------------- C21
\* run has left its loop, or its thread has died.
LoopEnded == loop \in {"concluded", "panicked"}

\* C21: the control loop terminates when, and only when, it receives the
\* Conclude signal: after Conclude no further message, signal or pruning
\* wave is processed and the store is not mutated again, and before
\* Conclude no other message or signal ends the loop.
C21_EndsOnlyOnConclude == LoopEnded => (loop = "concluded" /\ ~ENABLED Next)

\* ----------------------------------------------------------------- C22
\* What an activation reporting the hashes I is to make of record r.
IncludedAt(r, I) == IF r.candidate_hash \in I THEN [r EXCEPT !.candidate_state = "Included", !.prune_at = Indefinite] ELSE r

\* The queue of store d2 holds the records of the current queue, those with
\* a hash in I marked and the others as they are; an absent queue stays
\* absent.
IncludedExactly(kind, d2, I) == LET q == pruning(kind, db) IN IF IsSome(q) THEN IsSome(pruning(kind, d2)) /\ BagOfSeq(Unwrap(pruning(kind, d2))) = BagOfSeq([i \in 1..Len(Unwrap(q)) |-> IncludedAt(Unwrap(q)[i], I)]) ELSE ~IsSome(pruning(kind, d2))

\* C22: a block activation whose candidate events include the set I of
\* CandidateIncluded hashes sets state Included and prune_at Indefinite on
\* exactly the records of both queues whose candidate_hash is in I and
\* leaves every other record's state and prune_at; neither an activation
\* nor a finalization, completed or failed, writes or deletes a key of
\* column DATA.
C22_IncludedExactly == loop = "running" => /\ \A I \in SUBSET Candidates, kind \in {"pov", "chunk"} : IncludedExactly(kind, process_block_activated(Begin(db), [ok |-> TRUE, included |-> I], 0).db, I)
                                           /\ \A activated \in ActivatedLists, fail \in 0..(2 * MaxLeaves) : ActivateAll(Begin(db), activated, fail).db.DATA = db.DATA
                                           /\ \A H \in 1..MaxBlock, fail \in 0..2 : process_block_finalized(Begin(db), now, H, fail).db.DATA = db.DATA

\* C22's case: an activation has marked the records of one candidate,
\* whose data is stored, and left a record of another candidate in the
\* same queue in state Stored with its deadline.
C22_Witness == \E q \in {PoVQueue, ChunkQueue} : \E i, j \in 1..Len(q) : q[i].candidate_state = "Included" /\ q[i].prune_at = Indefinite /\ q[j].candidate_hash # q[i].candidate_hash /\ q[j].candidate_state = "Stored" /\ q[j].prune_at # Indefinite /\ (IsSome(available_data(db, q[i].candidate_hash)) \/ \E index \in ChunkIndices : IsSome(stored_chunk(db, q[i].candidate_hash, index)))

\* ----------------------------------------------------------------- C23
\* Record r's deadline is At(t') with t' <= t.
Due(r, t) == r.prune_at.tag = "In" /\ r.prune_at.d <= t

\* The records of queue q a wave at time t is to remove, and to keep.
DueRecords(q, t) == {i \in 1..Len(q) : Due(q[i], t)}
KeptRecords(q, t) == SelectSeq(q, LAMBDA r : ~Due(r, t))

\* The wave of the given queue, run now with its one batch committed:
\* the queue it leaves holds the records that are not due and no other,
\* and column DATA has lost the keys of the due records and no other.
WaveRemovesDue(kind) == LET q == unwrap_or_default(pruning(kind, db)) st == prune(kind, Begin(db), now, 0) IN /\ st.writes = 1
                                                                                                            /\ BagOfSeq(unwrap_or_default(pruning(kind, st.db))) = BagOfSeq(KeptRecords(q, now))
                                                                                                            /\ DOMAIN st.db.DATA = DOMAIN db.DATA \ {RecordKey(kind, q[i]) : i \in DueRecords(q, now)}

\* C23: a pruning wave run at time now (prune_povs, resp. prune_chunks)
\* removes from its queue exactly the records whose prune_at <= At(now),
\* deletes the DATA key of each removed record in the same batch as the
\* queue update, and removes nothing else: after the wave no record with
\* prune_at <= At(now) remains in the queue and no record with a later or
\* Indefinite prune_at has been removed.
C23_WaveRemovesExactlyDue == \A kind \in {"pov", "chunk"} : (loop = "running" /\ TimerFired(kind)) => WaveRemovesDue(kind)

\* ----------------------------------------------------------------- C24
\* A step in which a wave of the given queue has acted: it is the waves,
\* and nothing else, that remove records from a queue.
WaveActed(kind) == QueueLen(kind, db') < QueueLen(kind, db)

\* The cached wakeup of the given queue is present and the clock has
\* reached it.
WakeupReached(kind) == LET next == DbGet(db, "META", NextKey(kind)) IN next # None /\ Unwrap(next) <= now

\* C24: in each loop iteration the PoV pruning wave can run only if
\* next_pov_pruning was present when the iteration started and the current
\* time has reached the cached value; when next_pov_pruning is absent the
\* PoV timer never fires, so prune_povs is not run in that iteration. The
\* same holds for next_chunk_pruning and prune_chunks.
C24_WaveOnlyWhenDue == [][\A kind \in {"pov", "chunk"} : WaveActed(kind) => WakeupReached(kind)]_vars

\* C24's case: a wave has run and emptied its queue, which has left the
\* queue present and empty and the wakeup deleted, so that the timer of the
\* next iteration is pending.
C24_Witness == \E kind \in {"pov", "chunk"} : pruning(kind, db) = Some(<<>>) /\ DbGet(db, "META", NextKey(kind)) = None

\* ----------------------------------------------------------------- C25
\* The variants of Error an iteration can return: a failed runtime or chain
\* API request, erasure coding, the KV store, a dropped reply channel, the
\* overseer's bus, the clock.
IterationErrors == {"RuntimeApi", "ChainApi", "Erasure", "Io", "Canceled", "Subsystem", "Time"}

\* The errors with which an iteration that starts in the current state can
\* return, over the messages, signals and waves and their faults.
ErrorsFromHere == UNION {{ProcessStoreChunk(db, now, c, chunk, reply, fail, listening).st.err : chunk \in Chunks, reply \in BlockNumberReplies(c), fail \in 0..1, listening \in BOOLEAN} \cup {ProcessStoreAvailableData(db, now, c, id, NValidators, data, fail, listening).st.err : id \in {None, Some(0)}, data \in DataOf(c), fail \in 0..2, listening \in BOOLEAN} \cup {Send(HandleQueryChunk(db, now, c, index, fail), listening).st.err : index \in ChunkIndices, fail \in 0..1, listening \in BOOLEAN} : c \in Candidates} \cup {ActivateAll(Begin(db), activated, fail).err : activated \in ActivatedLists, fail \in 0..1} \cup {process_block_finalized(Begin(db), now, H, fail).err : H \in 1..MaxBlock, fail \in 0..2} \cup {prune(kind, Begin(db), now, 1).err : kind \in {"pov", "chunk"}}

\* An activation whose candidate-events request fails returns Ok(()) and
\* has written nothing, whichever write would have failed.
FailedEventsLeaveStore == \A fail \in 0..1 : process_block_activated(Begin(db), [ok |-> FALSE, included |-> {}], fail) = Begin(db)

\* After a failed iteration run logs the error and starts another
\* iteration, with the store as the failed iteration left it.
ResumesAfterError == [][(loop \in IterationErrors) => (loop' = "running" /\ db' = db)]_vars

\* An error is raised in an iteration, and nowhere else.
RaisedInIteration == [][(loop' \in IterationErrors) => (loop = "running")]_vars

\* C25: no error raised inside a loop iteration terminates the control
\* loop: after an iteration fails with a RuntimeApi, ChainApi, Erasure, Io,
\* cancelled-reply, bus or clock error, run is where it logs the error,
\* from there it starts another iteration with the store as the failed
\* iteration left it, and it processes the next message, signal or wave; a
\* failed candidate-events request during block activation leaves both
\* queues and both cached wakeups unchanged.
C25_ErrorsDoNotEndLoop == /\ [](loop = "running" => /\ \A e \in IterationErrors \cup (ErrorsFromHere \ {"none", "panic"}) : AfterIteration(e) \in IterationErrors
                                                    /\ FailedEventsLeaveStore)
                          /\ [](loop \notin {"running", "concluded", "panicked"} => (loop \in IterationErrors /\ ENABLED Trace))
                          /\ ResumesAfterError
                          /\ RaisedInIteration

\* C25's case: an iteration has failed with an Io or ChainApi error while
\* the store holds records, and run is logging the error.
C25_Witness == loop \in {"Io", "ChainApi"} /\ (PoVQueue # <<>> \/ ChunkQueue # <<>>)

\* ----------------------------------------------------------------- C26
\* Nothing to serve for (c, index): no chunk is stored under the key, and
\* there is no full data or the index is not below the stored n_validators.
NothingToServe(c, index) == LET data == available_data(db, c) IN stored_chunk(db, c, index) = None /\ (data = None \/ index >= Unwrap(data).n_validators)

\* get_chunk(c, index) run now with every write succeeding returns None
\* exactly when there is nothing to serve, and with neither chunk nor data
\* it attempts no write.
NoneExactly(c, index) == LET r == get_chunk(Begin(db), now, c, index, 0) IN r.st.err = "none" /\ ((r.value = None) <=> NothingToServe(c, index)) /\ ((stored_chunk(db, c, index) = None /\ available_data(db, c) = None) => (r.st.attempts = 0 /\ r.st.db = db))

\* Returning None, it leaves the length of the chunk queue.
NoneLeavesQueue(c, index) == LET r == get_chunk(Begin(db), now, c, index, 0) IN (r.value = None) => (QueueLen("chunk", r.st.db) = QueueLen("chunk", db))

\* C26: get_chunk(c, i) returns None exactly when no chunk is stored under
\* K_chunk(c, i) and either no full data is stored for c or i is at least
\* the stored n_validators; when it returns None because neither the chunk
\* nor the data exists it performs no KV write; and a get_chunk that
\* returns None never changes the number of records in the chunk queue.
C26_NoneLeavesQueue == loop = "running" => \A c \in Candidates, index \in 0..NValidators : NoneExactly(c, index) /\ NoneLeavesQueue(c, index)

\* ----------------------------------------------------------------- C27
\* The pruning record a store at the current time adds for candidate c.
NewPoVRecord(c, data) == [candidate_hash |-> c, block_number |-> data.block_number, candidate_state |-> "Stored", prune_at |-> In(now + KEEP_STORED_BLOCK_FOR)]
NewChunkRecord(c, index, data) == [candidate_hash |-> c, block_number |-> data.block_number, candidate_state |-> "Stored", chunk_index |-> index, prune_at |-> In(now + KEEP_STORED_BLOCK_FOR)]

\* Store d2 holds the full data of c and one more PoV record, for c.
DataAndRecord(d2, c, data) == available_data(d2, c) = Some([data |-> data, n_validators |-> NValidators]) /\ BagOfSeq(unwrap_or_default(pov_pruning(d2))) = BagOfSeq(Append(PoVQueue, NewPoVRecord(c, data)))

\* With Some(index) in range: besides the data, chunk index of the derived
\* chunks and no other key, and one more chunk record, for (c, index).
StoresOwnChunk(c, index, data) == LET h == HandleStoreAvailableData(db, now, c, Some(index), NValidators, data, 0) d2 == h.st.db IN /\ h.reply = Some("Ok") /\ DataAndRecord(d2, c, data)
                                                                                                                                  /\ stored_chunk(d2, c, index) = Some(get_chunks(data, NValidators)[index + 1])
                                                                                                                                  /\ DOMAIN d2.DATA = DOMAIN db.DATA \cup {available_data_key(c), erasure_chunk_key(c, index)}
                                                                                                                                  /\ BagOfSeq(unwrap_or_default(chunk_pruning(d2))) = BagOfSeq(Append(ChunkQueue, NewChunkRecord(c, index, data)))

\* With None: the data, no chunk, and the chunk queue and its wakeup as
\* they were.
StoresNoChunk(c, data) == LET h == HandleStoreAvailableData(db, now, c, None, NValidators, data, 0) d2 == h.st.db IN /\ h.reply = Some("Ok") /\ DataAndRecord(d2, c, data)
                                                                                                                  /\ DOMAIN d2.DATA = DOMAIN db.DATA \cup {available_data_key(c)}
                                                                                                                  /\ chunk_pruning(d2) = chunk_pruning(db) /\ get_next_pruning_time("chunk", d2) = get_next_pruning_time("chunk", db)

\* With an index that is not below n_validators: an Err(()) reply, the
\* subsystem alive.
RejectsOutOfRange(c, index, data) == LET h == HandleStoreAvailableData(db, now, c, Some(index), NValidators, data, 0) IN h.reply = Some("Err") /\ AfterIteration(h.st.err) # "panicked"

\* C27: store_available_data(c, Some(i), n, data) persists, besides the
\* full data and one PoV record in state Stored with block_number =
\* data.block_number, exactly one chunk: chunk i of the n chunks derived
\* from data, under K_chunk(c, i), with exactly one new chunk pruning
\* record (c, i) in state Stored with the same block_number; with None it
\* writes no chunk and leaves the chunk queue and next_chunk_pruning
\* unchanged; an index i >= n yields an error reply and does not abort the
\* subsystem.
C27_StoresOwnChunkOnly == loop = "running" => \A c \in Candidates : \A data \in DataOf(c) : /\ \A index \in ChunkIndices : StoresOwnChunk(c, index, data)
                                                                                           /\ StoresNoChunk(c, data)
                                                                                           /\ RejectsOutOfRange(c, NValidators, data)

\* ----------------------------------------------------------------- C28
\* The artifact of every record of the given queue is in column DATA.
RecordsHaveData(kind) == LET q == unwrap_or_default(pruning(kind, db)) IN \A i \in 1..Len(q) : RecordKey(kind, q[i]) \in DOMAIN db.DATA

\* C28: in every reachable state every pruning record refers to an
\* artifact that is still stored: for each record in the PoV queue the key
\* K_data(candidate_hash) is present in column DATA, and for each record
\* in the chunk queue the key K_chunk(candidate_hash, chunk_index) is
\* present, until the pruning wave that removes that record.
C28_RecordsHaveData == RecordsHaveData("pov") /\ RecordsHaveData("chunk")

\* ----------------------------------------------------------------- C29
\* The given queue holds a record with a deadline At(t).
HasDeadline(kind) == LET q == unwrap_or_default(pruning(kind, db)) IN \E i \in 1..Len(q) : q[i].prune_at.tag = "In"

\* C29: in every reachable state, if a pruning queue contains a record
\* whose prune_at is At(t) then the cached wakeup of that queue
\* (next_pov_pruning, resp. next_chunk_pruning) is present, so that the
\* timer of that queue is armed and is not pending forever while a record
\* with a finite deadline exists.
C29_DeadlineArmsTimer == \A kind \in {"pov", "chunk"} : HasDeadline(kind) => IsSome(get_next_pruning_time(kind, db))

====
